---- MODULE Spec2Model ----
(***************************************************************************)
(* taskz: a one-shot command-line task list.  Every invocation runs one    *)
(* command against two files, tasks.json (the store) and undo.json (the    *)
(* single-slot undo buffer).  The model keeps the two files, the wall      *)
(* clock, and a record of the most recent invocations.                     *)
(***************************************************************************)
EXTENDS Integers, Sequences, FiniteSets, Bags, TLC

\* ---------------------------------------------------------------- bounds
MaxTasks == 2          \* tasks alive at once in the command model
MaxTime == 1           \* last value of the wall clock (seconds)
MaxLen == 1            \* longest description given to the matcher
MaxQueryLen == 2       \* longest query given to the matcher
MaxMatchTasks == 2     \* longest task slice given to the matcher and to save_tasks

\* ---------------------------------------------------------------- state
VARIABLES
    tasksFile,   \* tasks.json: None or Some(content)
    undoFile,    \* undo.json: None or Some(content)
    now,         \* Utc::now().timestamp()
    hist,        \* the last invocation other than undo, after the mark_done that
                 \* removed a task right before it, if there was one
    undoRun,     \* the undo invocations made right after the last entry of hist;
                 \* n counts them: 0, 1, or 2 for two or more
    mTasks,      \* matcher input: the task slice
    mQuery,      \* matcher input: the query
    mFound,      \* matcher output
    mPc,         \* "idle", "input" or "resolved"
    doneSince,   \* a mark_done removed a task and no undo_last has restored one since
    rt,          \* save_tasks followed by load_tasks: input, progress and result
    race         \* two add_task invocations running at once

fileVars == <<tasksFile, undoFile, now, hist, undoRun, doneSince>>
matchVars == <<mTasks, mQuery, mFound, mPc>>
vars == <<tasksFile, undoFile, now, hist, undoRun, mTasks, mQuery, mFound, mPc,
          doneSince, rt, race>>

\* ---------------------------------------------------------------- strings
\* A String is a sequence of characters; the alphabet has one letter in both
\* cases and two lower-case letters.
Chars == {"a", "A", "b"}

Lower(c) == IF c = "A" THEN "a" ELSE IF c = "B" THEN "b" ELSE c

Code(c) == CASE c = "A" -> 65 [] c = "B" -> 66 [] c = "a" -> 97 [] c = "b" -> 98 [] OTHER -> 0

to_lowercase(s) == [i \in 1..Len(s) |-> Lower(s[i])]

Min2(a, b) == IF a <= b THEN a ELSE b

RECURSIVE levenshtein(_, _)
levenshtein(a, b) ==
    IF Len(a) = 0 THEN Len(b)
    ELSE IF Len(b) = 0 THEN Len(a)
    ELSE LET cost == IF a[Len(a)] = b[Len(b)] THEN 0 ELSE 1
             a1 == SubSeq(a, 1, Len(a) - 1)
             b1 == SubSeq(b, 1, Len(b) - 1)
         IN  Min2(Min2(levenshtein(a1, b) + 1, levenshtein(a, b1) + 1),
                  levenshtein(a1, b1) + cost)

\* Ordering::Less for str: byte-wise lexicographic, a proper prefix is smaller.
RECURSIVE StrLess(_, _)
StrLess(a, b) ==
    IF Len(b) = 0 THEN FALSE
    ELSE IF Len(a) = 0 THEN TRUE
    ELSE IF Code(a[1]) # Code(b[1]) THEN Code(a[1]) < Code(b[1])
    ELSE StrLess(Tail(a), Tail(b))

\* str::contains: the pattern occurs as a contiguous substring.
contains(s, p) ==
    \E i \in 1..(Len(s) + 1) :
        /\ i + Len(p) - 1 <= Len(s)
        /\ SubSeq(s, i, i + Len(p) - 1) = p

\* ---------------------------------------------------------------- Task, Option
Task(d, t) == [description |-> d, created_at |-> t]

None == <<>>
Some(x) == <<x>>

\* ---------------------------------------------------------------- JSON text
\* File text is a sequence of tokens.  A file whose bytes are not UTF-8 has
\* no text at all.
Tok(k) == [k |-> k, s |-> <<>>, n |-> 0]
StrTok(s) == [k |-> "str", s |-> s, n |-> 0]
NumTok(n) == [k |-> "num", s |-> <<>>, n |-> n]

Text(toks) == [utf8 |-> TRUE, toks |-> toks]
Binary == [utf8 |-> FALSE, toks |-> <<>>]

\* Variant: created_at is left out of the serialised object.
task_to_json_skip_created_at(t) ==
    << Tok("{"), Tok("description"), StrTok(t.description), Tok("}") >>

\* serde_json::to_string_pretty(&Task)
task_to_json(t) ==
    << Tok("{"), Tok("description"), StrTok(t.description),
       Tok("created_at"), NumTok(t.created_at), Tok("}") >>

\* serde_json::to_string_pretty(&Vec<Task>)
RECURSIVE tasks_body_json(_)
tasks_body_json(ts) ==
    IF Len(ts) = 0 THEN <<>> ELSE task_to_json(Head(ts)) \o tasks_body_json(Tail(ts))

tasks_to_json(ts) == <<Tok("[")>> \o tasks_body_json(ts) \o <<Tok("]")>>

\* serde_json::from_str::<Task>: an object with both fields, in either order.
task_from_json(toks) ==
    IF Len(toks) # 6 \/ toks[1] # Tok("{") \/ toks[6] # Tok("}") THEN None
    ELSE IF /\ toks[2] = Tok("description") /\ toks[3].k = "str"
            /\ toks[4] = Tok("created_at") /\ toks[5].k = "num"
         THEN Some(Task(toks[3].s, toks[5].n))
    ELSE IF /\ toks[2] = Tok("created_at") /\ toks[3].k = "num"
            /\ toks[4] = Tok("description") /\ toks[5].k = "str"
         THEN Some(Task(toks[5].s, toks[3].n))
    ELSE None

\* serde_json::from_str::<Vec<Task>>: an array whose elements all parse.
RECURSIVE tasks_body_from_json(_)
tasks_body_from_json(toks) ==
    IF Len(toks) = 0 THEN Some(<<>>)
    ELSE IF Len(toks) < 6 THEN None
    ELSE LET h == task_from_json(SubSeq(toks, 1, 6))
             r == tasks_body_from_json(SubSeq(toks, 7, Len(toks)))
         IN  IF h = None \/ r = None THEN None ELSE Some(<<h[1]>> \o r[1])

tasks_from_json(toks) ==
    IF Len(toks) < 2 \/ toks[1] # Tok("[") \/ toks[Len(toks)] # Tok("]") THEN None
    ELSE tasks_body_from_json(SubSeq(toks, 2, Len(toks) - 1))

\* ---------------------------------------------------------------- files
\* A file is absent (None) or Some(content).
exists(f) == f # None

Ok(v) == [ok |-> TRUE, val |-> v, err |-> ""]
Err(e) == [ok |-> FALSE, val |-> <<>>, err |-> e]

\* fs::read_to_string: fails with InvalidData when the bytes are not UTF-8.
read_to_string(f) ==
    IF ~exists(f) THEN Err("NotFound")
    ELSE IF ~f[1].utf8 THEN Err("InvalidData")
    ELSE Ok(f[1].toks)

\* Variant: a parse failure is propagated instead of being swallowed.
load_tasks_strict(tf) ==
    IF ~exists(tf) THEN Ok(<<>>)
    ELSE LET data == read_to_string(tf)
         IN  IF ~data.ok THEN Err(data.err)
             ELSE LET tasks == tasks_from_json(data.val)
                  IN  IF tasks = None THEN Err("InvalidData") ELSE Ok(tasks[1])

load_tasks(tf) ==
    IF ~exists(tf) THEN Ok(<<>>)
    ELSE LET data == read_to_string(tf)
         IN  IF ~data.ok THEN Err(data.err)
             ELSE LET tasks == tasks_from_json(data.val)
                  IN  IF tasks = None THEN Ok(<<>>) ELSE Ok(tasks[1])

\* save_tasks returns the new content of tasks.json.
save_tasks(tasks) == Some(Text(tasks_to_json(tasks)))

\* ---------------------------------------------------------------- matching
\* Variant: the description is compared without case folding.
key_case_sensitive(tasks, query, i) ==
    levenshtein(tasks[i + 1].description, to_lowercase(query))

key(tasks, query, i) ==
    levenshtein(to_lowercase(tasks[i + 1].description), to_lowercase(query))

\* Variant: on equal keys the later element replaces the earlier one.
RECURSIVE min_by_key_last(_, _, _, _)
min_by_key_last(tasks, query, best, i) ==
    IF i >= Len(tasks) THEN best
    ELSE min_by_key_last(tasks, query,
                         IF key(tasks, query, best) >= key(tasks, query, i) THEN i ELSE best,
                         i + 1)

\* Iterator::min_by_key folds from the left and keeps the earlier element
\* unless the later one is strictly smaller.  Indices are 0-based.
RECURSIVE min_by_key(_, _, _, _)
min_by_key(tasks, query, best, i) ==
    IF i >= Len(tasks) THEN best
    ELSE min_by_key(tasks, query,
                    IF key(tasks, query, best) > key(tasks, query, i) THEN i ELSE best,
                    i + 1)

find_closest_task(tasks, query) ==
    IF Len(tasks) = 0 THEN None ELSE Some(min_by_key(tasks, query, 0, 1))

\* Vec::remove(index), 0-based
remove(tasks, index) ==
    SubSeq(tasks, 1, index) \o SubSeq(tasks, index + 2, Len(tasks))

\* ---------------------------------------------------------------- sorting
ByDescription(a, b) == StrLess(to_lowercase(a.description), to_lowercase(b.description))
ByCreatedAt(a, b) == a.created_at < b.created_at

\* slice::sort_by is stable: an element goes before the first one it is less than.
RECURSIVE insert_sorted(_, _, _)
insert_sorted(s, x, alphabetical) ==
    IF Len(s) = 0 THEN <<x>>
    ELSE IF (IF alphabetical THEN ByDescription(x, Head(s)) ELSE ByCreatedAt(x, Head(s)))
         THEN <<x>> \o s
    ELSE <<Head(s)>> \o insert_sorted(Tail(s), x, alphabetical)

RECURSIVE sort_by(_, _)
sort_by(s, alphabetical) ==
    IF Len(s) = 0 THEN <<>>
    ELSE insert_sorted(sort_by(SubSeq(s, 1, Len(s) - 1), alphabetical), s[Len(s)], alphabetical)

\* ---------------------------------------------------------------- commands
\* Each command maps the two files (and its arguments) to an outcome: the
\* files afterwards, how the function ended (Ok, Err, or Exit for
\* std::process::exit(1)), what it printed, which task it removed and what
\* load_tasks returned to it.
Outcome(tf, uf, ret, msg, removed, printed) ==
    [tasksFile |-> tf, undoFile |-> uf, ret |-> ret, msg |-> msg,
     removed |-> removed, printed |-> printed, loaded |-> None]

\* The outcome of a command that called load_tasks and got l from it.
Loaded(l, o) == [o EXCEPT !.loaded = Some(l)]

\* Variant: the file is read again and the new task appended to what it holds.
add_task_write_merging(tf, tasks, description, time) ==
    save_tasks(Append(load_tasks(tf).val, Task(description, time)))

\* The second half of add_task: push on the vector loaded earlier and save it
\* over tf, whatever tf holds by then.
add_task_write(tf, tasks, description, time) ==
    save_tasks(Append(tasks, Task(description, time)))

\* Variant: a description the store already holds is not added again.
add_task_dedup(tf, uf, description, time) ==
    LET l == load_tasks(tf)
        dup == \E i \in 1..Len(l.val) : l.val[i].description = description
        tasks == IF dup THEN l.val ELSE Append(l.val, Task(description, time))
    IN  Loaded(l,
            IF ~l.ok THEN Outcome(tf, uf, "Err", l.err, None, <<>>)
            ELSE Outcome(save_tasks(tasks), uf, "Ok", "task added", None, <<>>))

add_task(tf, uf, description, time) ==
    LET l == load_tasks(tf)
        tasks == Append(l.val, Task(description, time))
    IN  Loaded(l,
            IF ~l.ok THEN Outcome(tf, uf, "Err", l.err, None, <<>>)
            ELSE Outcome(save_tasks(tasks), uf, "Ok", "task added", None, <<>>))

\* Variant: the sorted vector is written back to the store.
list_tasks_saves_sorted(tf, uf, alphabetical) ==
    LET l == load_tasks(tf)
        tasks == sort_by(l.val, alphabetical)
    IN  Loaded(l,
            IF ~l.ok THEN Outcome(tf, uf, "Err", l.err, None, <<>>)
            ELSE IF Len(tasks) = 0
                 THEN Outcome(tf, uf, "Ok", "no tasks found", None, <<>>)
                 ELSE Outcome(save_tasks(tasks), uf, "Ok", "", None, tasks))

list_tasks(tf, uf, alphabetical) ==
    LET l == load_tasks(tf)
        tasks == sort_by(l.val, alphabetical)
    IN  Loaded(l,
            IF ~l.ok THEN Outcome(tf, uf, "Err", l.err, None, <<>>)
            ELSE IF Len(tasks) = 0
                 THEN Outcome(tf, uf, "Ok", "no tasks found", None, <<>>)
                 ELSE Outcome(tf, uf, "Ok", "", None, tasks))

search_tasks(tf, uf, query) ==
    LET l == load_tasks(tf)
        query_lower == to_lowercase(query)
        filtered == SelectSeq(l.val,
            LAMBDA task : contains(to_lowercase(task.description), query_lower))
    IN  Loaded(l,
            IF ~l.ok THEN Outcome(tf, uf, "Err", l.err, None, <<>>)
            ELSE IF Len(filtered) = 0
                 THEN Outcome(tf, uf, "Ok", "no tasks found matching", None, <<>>)
                 ELSE Outcome(tf, uf, "Ok", "", None, filtered))

\* Variant: an undo file that is already there is not overwritten.
mark_done_keeps_first(tf, uf, query) ==
    LET l == load_tasks(tf)
        found == find_closest_task(l.val, query)
        removed == l.val[found[1] + 1]
        tasks == remove(l.val, found[1])
    IN  Loaded(l,
            IF ~l.ok THEN Outcome(tf, uf, "Err", l.err, None, <<>>)
            ELSE IF found = None
                 THEN Outcome(tf, uf, "Ok", "no matching task found", None, <<>>)
                 ELSE Outcome(save_tasks(tasks),
                              IF exists(uf) THEN uf ELSE Some(Text(task_to_json(removed))),
                              "Ok", "task done and removed", Some(removed), <<>>))

\* Variant: the vector is saved whether or not a task was found.
mark_done_saves_always(tf, uf, query) ==
    LET l == load_tasks(tf)
        found == find_closest_task(l.val, query)
        removed == l.val[found[1] + 1]
        tasks == remove(l.val, found[1])
    IN  Loaded(l,
            IF ~l.ok THEN Outcome(tf, uf, "Err", l.err, None, <<>>)
            ELSE IF found = None
                 THEN Outcome(save_tasks(l.val), uf, "Ok", "no matching task found", None, <<>>)
                 ELSE Outcome(save_tasks(tasks), Some(Text(task_to_json(removed))),
                              "Ok", "task done and removed", Some(removed), <<>>))

mark_done(tf, uf, query) ==
    LET l == load_tasks(tf)
        found == find_closest_task(l.val, query)
        removed == l.val[found[1] + 1]
        tasks == remove(l.val, found[1])
    IN  Loaded(l,
            IF ~l.ok THEN Outcome(tf, uf, "Err", l.err, None, <<>>)
            ELSE IF found = None
                 THEN Outcome(tf, uf, "Ok", "no matching task found", None, <<>>)
                 ELSE Outcome(save_tasks(tasks), Some(Text(task_to_json(removed))),
                              "Ok", "task done and removed", Some(removed), <<>>))

\* Variant: the undo file is left in place after the task is restored.
undo_last_keeps_buffer(tf, uf) ==
    LET data == read_to_string(uf)
        last_task == task_from_json(data.val)
        l == load_tasks(tf)
    IN  IF ~exists(uf) THEN Outcome(tf, uf, "Ok", "no undo available", None, <<>>)
        ELSE IF ~data.ok THEN Outcome(tf, uf, "Err", data.err, None, <<>>)
        ELSE IF last_task = None
             THEN Outcome(tf, uf, "Exit", "failed to parse undo data", None, <<>>)
        ELSE Loaded(l,
                 IF ~l.ok THEN Outcome(tf, uf, "Err", l.err, None, <<>>)
                 ELSE Outcome(save_tasks(Append(l.val, last_task[1])), uf,
                              "Ok", "undo successful: task restored", None, <<>>))

\* Variant: an undo file that does not parse is discarded, as a corrupt
\* store is.
undo_last_lenient(tf, uf) ==
    LET data == read_to_string(uf)
        last_task == task_from_json(data.val)
        l == load_tasks(tf)
    IN  IF ~exists(uf) THEN Outcome(tf, uf, "Ok", "no undo available", None, <<>>)
        ELSE IF ~data.ok THEN Outcome(tf, uf, "Err", data.err, None, <<>>)
        ELSE IF last_task = None
             THEN Outcome(tf, None, "Ok", "no undo available", None, <<>>)
        ELSE Loaded(l,
                 IF ~l.ok THEN Outcome(tf, uf, "Err", l.err, None, <<>>)
                 ELSE Outcome(save_tasks(Append(l.val, last_task[1])), None,
                              "Ok", "undo successful: task restored", None, <<>>))

\* Variant: the task is restored through Task::new, with a fresh timestamp.
undo_last_fresh_timestamp(tf, uf) ==
    LET data == read_to_string(uf)
        last_task == task_from_json(data.val)
        l == load_tasks(tf)
    IN  IF ~exists(uf) THEN Outcome(tf, uf, "Ok", "no undo available", None, <<>>)
        ELSE IF ~data.ok THEN Outcome(tf, uf, "Err", data.err, None, <<>>)
        ELSE IF last_task = None
             THEN Outcome(tf, uf, "Exit", "failed to parse undo data", None, <<>>)
        ELSE Loaded(l,
                 IF ~l.ok THEN Outcome(tf, uf, "Err", l.err, None, <<>>)
                 ELSE Outcome(save_tasks(Append(l.val, Task(last_task[1].description, now))),
                              None, "Ok", "undo successful: task restored", None, <<>>))

\* Variant: the undo file is written before the store is saved.
mark_done_io_undo_first(tf, uf, query, fail) ==
    LET l == load_tasks(tf)
        found == find_closest_task(l.val, query)
        removed == l.val[found[1] + 1]
        tasks == remove(l.val, found[1])
    IN  IF fail = "none" \/ ~l.ok \/ found = None THEN mark_done(tf, uf, query)
        ELSE IF fail = "undo"
             THEN Loaded(l, Outcome(tf, uf, "Err", "undo write failed", None, <<>>))
             ELSE Loaded(l, Outcome(tf, Some(Text(task_to_json(removed))), "Err",
                                    "store write failed", None, <<>>))

\* mark_done when a write can fail: fail names the write that returns an
\* io::Error ("store" for save_tasks, "undo" for the write of undo.json, or
\* "none").  A failed write leaves its file as it was.
mark_done_io(tf, uf, query, fail) ==
    LET l == load_tasks(tf)
        found == find_closest_task(l.val, query)
        removed == l.val[found[1] + 1]
        tasks == remove(l.val, found[1])
    IN  IF fail = "none" \/ ~l.ok \/ found = None THEN mark_done(tf, uf, query)
        ELSE IF fail = "store"
             THEN Loaded(l, Outcome(tf, uf, "Err", "store write failed", None, <<>>))
             ELSE Loaded(l, Outcome(save_tasks(tasks), uf, "Err", "undo write failed",
                                    Some(removed), <<>>))

\* Variant: the task is restored at the front of the vector.
undo_last_prepends(tf, uf) ==
    LET data == read_to_string(uf)
        last_task == task_from_json(data.val)
        l == load_tasks(tf)
    IN  IF ~exists(uf) THEN Outcome(tf, uf, "Ok", "no undo available", None, <<>>)
        ELSE IF ~data.ok THEN Outcome(tf, uf, "Err", data.err, None, <<>>)
        ELSE IF last_task = None
             THEN Outcome(tf, uf, "Exit", "failed to parse undo data", None, <<>>)
        ELSE Loaded(l,
                 IF ~l.ok THEN Outcome(tf, uf, "Err", l.err, None, <<>>)
                 ELSE Outcome(save_tasks(<<last_task[1]>> \o l.val), None,
                              "Ok", "undo successful: task restored", None, <<>>))

undo_last(tf, uf) ==
    LET data == read_to_string(uf)
        last_task == task_from_json(data.val)
        l == load_tasks(tf)
    IN  IF ~exists(uf) THEN Outcome(tf, uf, "Ok", "no undo available", None, <<>>)
        ELSE IF ~data.ok THEN Outcome(tf, uf, "Err", data.err, None, <<>>)
        ELSE IF last_task = None
             THEN Outcome(tf, uf, "Exit", "failed to parse undo data", None, <<>>)
        ELSE Loaded(l,
                 IF ~l.ok THEN Outcome(tf, uf, "Err", l.err, None, <<>>)
                 ELSE Outcome(save_tasks(Append(l.val, last_task[1])), None,
                              "Ok", "undo successful: task restored", None, <<>>))

\* Variant: the matched task is replaced by Task::new(new_description).
edit_task_fresh(tf, uf, query, new_description) ==
    LET l == load_tasks(tf)
        found == find_closest_task(l.val, query)
        tasks == [l.val EXCEPT ![found[1] + 1] = Task(new_description, now)]
    IN  Loaded(l,
            IF ~l.ok THEN Outcome(tf, uf, "Err", l.err, None, <<>>)
            ELSE IF found = None
                 THEN Outcome(tf, uf, "Ok", "no matching task found", None, <<>>)
                 ELSE Outcome(save_tasks(tasks), uf, "Ok", "task updated", None, <<>>))

edit_task(tf, uf, query, new_description) ==
    LET l == load_tasks(tf)
        found == find_closest_task(l.val, query)
        tasks == [l.val EXCEPT ![found[1] + 1].description = new_description]
    IN  Loaded(l,
            IF ~l.ok THEN Outcome(tf, uf, "Err", l.err, None, <<>>)
            ELSE IF found = None
                 THEN Outcome(tf, uf, "Ok", "no matching task found", None, <<>>)
                 ELSE Outcome(save_tasks(tasks), uf, "Ok", "task updated", None, <<>>))

\* Variant: the message is printed but nothing is saved.
clear_tasks_unsaved(tf, uf) ==
    Outcome(tf, uf, "Ok", "all tasks cleared", None, <<>>)

\* Variant: the undo file is removed along with the tasks.
clear_tasks_drops_undo(tf, uf) ==
    Outcome(save_tasks(<<>>), None, "Ok", "all tasks cleared", None, <<>>)

clear_tasks(tf, uf) ==
    Outcome(save_tasks(<<>>), uf, "Ok", "all tasks cleared", None, <<>>)

\* ---------------------------------------------------------------- invocations
\* Command-line arguments the command model draws from.
Descs == {<<"a">>, <<"B">>, <<"a", "b">>}
Queries == {<<"A">>, <<"b">>}

\* File contents no run of the program wrote.
CorruptStore == Text(<<Tok("["), Tok("{")>>)
CorruptUndo == Text(<<Tok("["), Tok("]")>>)

\* An undo file an earlier mark_done left behind.
LeftoverUndo == Text(task_to_json(Task(<<"a">>, 0)))

\* What main() leaves behind for one invocation.  The process exit status
\* is 1 only through std::process::exit(1); an Err is printed and main returns.
\* preTasks and preUndo are the files the invocation started from, args the
\* arguments it was given.
NoArgs == [query |-> <<>>, description |-> <<>>, time |-> 0]

Entry(op, args, o) ==
    [op |-> op, args |-> args, ret |-> o.ret, msg |-> o.msg,
     exit |-> IF o.ret = "Exit" THEN 1 ELSE 0,
     removed |-> o.removed, printed |-> o.printed, loaded |-> o.loaded,
     preTasks |-> tasksFile, preUndo |-> undoFile]

\* The invocation before e is kept only when it was a mark_done that removed
\* a task.
Remember(h, e) ==
    IF Len(h) >= 1 /\ h[Len(h)].op = "done" /\ h[Len(h)].removed # None
    THEN <<h[Len(h)], e>>
    ELSE <<e>>

NoUndoRun == [n |-> 0, first |-> None, last |-> None]

\* The parts of the state a specification does not use.
RtIdle == [pc |-> "idle", tasks |-> <<>>, loaded |-> Ok(<<>>)]
RaceIdle == [pc |-> <<"idle", "idle">>, description |-> <<<<>>, <<>>>>,
             tasks |-> <<<<>>, <<>>>>, pushed |-> <<None, None>>,
             base |-> <<>>, log |-> <<>>]

\* A command other than undo: apply the outcome and record the invocation.
Run(op, args, o) ==
    /\ tasksFile' = o.tasksFile
    /\ undoFile' = o.undoFile
    /\ hist' = IF undoRun.n > 0 THEN <<Entry(op, args, o)>>
               ELSE Remember(hist, Entry(op, args, o))
    /\ undoRun' = NoUndoRun
    /\ doneSince' = (doneSince \/ (op = "done" /\ o.removed # None))
    /\ UNCHANGED <<now, mTasks, mQuery, mFound, mPc, rt, race>>

\* Tasks the store and the undo buffer hold together.
Alive ==
    LET l == load_tasks(tasksFile)
        u == read_to_string(undoFile)
    IN  (IF l.ok THEN Len(l.val) ELSE 0)
        + (IF u.ok /\ task_from_json(u.val) # None THEN 1 ELSE 0)

Init ==
    /\ tasksFile \in {None, Some(CorruptStore), Some(Binary)}
    /\ undoFile \in {None, Some(CorruptUndo), Some(Binary), Some(LeftoverUndo)}
    /\ now = 0
    /\ hist = <<>>
    /\ undoRun = NoUndoRun
    /\ doneSince = FALSE
    /\ mTasks = <<>> /\ mQuery = <<>> /\ mFound = None /\ mPc = "idle"
    /\ rt = RtIdle /\ race = RaceIdle

Add ==
    /\ Alive < MaxTasks
    /\ \E d \in Descs :
          Run("add", [NoArgs EXCEPT !.description = d, !.time = now],
              add_task(tasksFile, undoFile, d, now))

List ==
    \E alphabetical \in BOOLEAN :
        Run("list", NoArgs, list_tasks(tasksFile, undoFile, alphabetical))

Search == \E q \in Queries : Run("search", NoArgs, search_tasks(tasksFile, undoFile, q))

Done == \E q \in Queries : Run("done", NoArgs, mark_done(tasksFile, undoFile, q))

Edit ==
    \E q \in Queries, d \in Descs :
        Run("edit", [NoArgs EXCEPT !.query = q, !.description = d],
            edit_task(tasksFile, undoFile, q, d))

Clear == Run("clear", NoArgs, clear_tasks(tasksFile, undoFile))

Undo ==
    LET o == undo_last(tasksFile, undoFile)
        e == Entry("undo", NoArgs, o)
    IN  /\ tasksFile' = o.tasksFile
        /\ undoFile' = o.undoFile
        /\ undoRun' = [n |-> IF undoRun.n = 0 THEN 1 ELSE 2,
                       first |-> IF undoRun.n = 0 THEN Some(e) ELSE undoRun.first,
                       last |-> Some(e)]
        /\ doneSince' = (doneSince /\ o.msg # "undo successful: task restored")
        /\ UNCHANGED <<now, hist, mTasks, mQuery, mFound, mPc, rt, race>>

Tick ==
    /\ now < MaxTime
    /\ now' = now + 1
    /\ UNCHANGED <<tasksFile, undoFile, hist, undoRun, mTasks, mQuery, mFound, mPc,
                   doneSince, rt, race>>

Next == Add \/ List \/ Search \/ Done \/ Undo \/ Edit \/ Clear \/ Tick

Spec == Init /\ [][Next]_vars

\* ---------------------------------------------------------------- matcher alone
Strings(n) == UNION {[1..k -> Chars] : k \in 0..n}

TaskSlices == UNION {[1..k -> {Task(d, 0) : d \in Strings(MaxLen)}] : k \in 0..MaxMatchTasks}

InitMatch ==
    /\ tasksFile = None /\ undoFile = None /\ now = 0
    /\ hist = <<>> /\ undoRun = NoUndoRun /\ doneSince = FALSE
    /\ rt = RtIdle /\ race = RaceIdle
    /\ mTasks \in TaskSlices
    /\ mQuery \in Strings(MaxQueryLen)
    /\ mFound = None
    /\ mPc = "input"

Resolve ==
    /\ mPc = "input"
    /\ mFound' = find_closest_task(mTasks, mQuery)
    /\ mPc' = "resolved"
    /\ UNCHANGED <<tasksFile, undoFile, now, hist, undoRun, mTasks, mQuery,
                   doneSince, rt, race>>

NextMatch == Resolve

SpecMatch == InitMatch /\ [][NextMatch]_vars

\* ---------------------------------------------------------------- save then load
\* save_tasks(ts) followed by load_tasks(), over whatever tasks.json held.
RtInputs ==
    UNION {[1..k -> {Task(d, t) : d \in Strings(MaxLen), t \in 0..MaxTime}] :
              k \in 0..MaxMatchTasks}

InitRoundTrip ==
    /\ tasksFile \in {None, Some(Binary)}
    /\ undoFile = None /\ now = 0
    /\ hist = <<>> /\ undoRun = NoUndoRun /\ doneSince = FALSE
    /\ mTasks = <<>> /\ mQuery = <<>> /\ mFound = None /\ mPc = "idle"
    /\ race = RaceIdle
    /\ rt \in {[pc |-> "input", tasks |-> ts, loaded |-> Ok(<<>>)] : ts \in RtInputs}

RtSave ==
    /\ rt.pc = "input"
    /\ tasksFile' = save_tasks(rt.tasks)
    /\ rt' = [rt EXCEPT !.pc = "saved"]
    /\ UNCHANGED <<undoFile, now, hist, undoRun, doneSince, matchVars, race>>

RtLoad ==
    /\ rt.pc = "saved"
    /\ rt' = [rt EXCEPT !.pc = "loaded", !.loaded = load_tasks(tasksFile)]
    /\ UNCHANGED <<tasksFile, undoFile, now, hist, undoRun, doneSince, matchVars, race>>

NextRoundTrip == RtSave \/ RtLoad

SpecRoundTrip == InitRoundTrip /\ [][NextRoundTrip]_vars

\* ---------------------------------------------------------------- two invocations
\* Two add_task processes run without a lock.  Each reads the file in one
\* step and overwrites it in a later one; the steps interleave freely.
Procs == {1, 2}

InitRace ==
    /\ tasksFile \in {None, Some(CorruptStore), save_tasks(<<Task(<<"a">>, 0)>>)}
    /\ undoFile = None /\ now = 0
    /\ hist = <<>> /\ undoRun = NoUndoRun /\ doneSince = FALSE
    /\ mTasks = <<>> /\ mQuery = <<>> /\ mFound = None /\ mPc = "idle"
    /\ rt = RtIdle
    /\ race \in {[pc |-> <<"start", "start">>, description |-> <<d1, d2>>,
                   tasks |-> <<<<>>, <<>>>>, pushed |-> <<None, None>>,
                   base |-> load_tasks(tasksFile).val, log |-> <<>>] :
                      d1 \in Descs, d2 \in Descs}

\* let mut tasks = load_tasks()?;
RaceLoad(p) ==
    /\ race.pc[p] = "start"
    /\ race' = [race EXCEPT
                   !.pc[p] = IF load_tasks(tasksFile).ok THEN "loaded" ELSE "failed",
                   !.tasks[p] = load_tasks(tasksFile).val,
                   !.log = Append(@, [p |-> p, ev |-> "load"])]
    /\ UNCHANGED <<tasksFile, undoFile, now, hist, undoRun, doneSince, matchVars, rt>>

\* tasks.push(Task::new(description)); save_tasks(&tasks)?;
RaceSave(p) ==
    /\ race.pc[p] = "loaded"
    /\ tasksFile' = add_task_write(tasksFile, race.tasks[p], race.description[p], now)
    /\ race' = [race EXCEPT
                   !.pc[p] = "done",
                   !.pushed[p] = Some(Task(race.description[p], now)),
                   !.log = Append(@, [p |-> p, ev |-> "save"])]
    /\ UNCHANGED <<undoFile, now, hist, undoRun, doneSince, matchVars, rt>>

NextRace == (\E p \in Procs : RaceLoad(p)) \/ (\E p \in Procs : RaceSave(p)) \/ Tick

SpecRace == InitRace /\ [][NextRace]_vars

\* ---------------------------------------------------------------- failing writes
\* add, done and undo, where either write of mark_done may fail.
DoneIO ==
    \E q \in Queries, fail \in {"none", "store", "undo"} :
        Run("done", NoArgs, mark_done_io(tasksFile, undoFile, q, fail))

NextIO == Add \/ DoneIO \/ Undo \/ Tick

SpecIO == Init /\ [][NextIO]_vars

\* ---------------------------------------------------------------- fresh install
\* The commands, started with no undo file.
InitClean == Init /\ undoFile = None

SpecClean == InitClean /\ [][Next]_vars

TypeOK ==
    /\ now \in 0..MaxTime
    /\ Len(hist) <= 2
    /\ undoRun.n \in 0..2

\* ---------------------------------------------------------------- properties
\* The task sequence a file holds, as load_tasks reads it.
StoreOf(f) == load_tasks(f).val

\* The task the undo buffer holds, if it holds one.
PendingOf(f) == IF read_to_string(f).ok THEN task_from_json(read_to_string(f).val) ELSE None

BagOfSeq(s) ==
    [x \in {s[i] : i \in 1..Len(s)} |-> Cardinality({i \in 1..Len(s) : s[i] = x})]

LastCmd == hist[Len(hist)]
FirstUndo == undoRun.first[1]
LastUndo == undoRun.last[1]

\* The last command other than undo was a mark_done that removed a task, and
\* exactly one undo_last has run since.
DoneThenUndo ==
    /\ Len(hist) >= 1
    /\ LastCmd.op = "done"
    /\ LastCmd.removed # None
    /\ undoRun.n = 1

\* C1 (as stated): after mark_done(q) directly followed by undo_last() the
\* store is the sequence it was before the mark_done, and the undo buffer
\* is absent.
C1_DoneUndoSameSequence ==
    DoneThenUndo =>
        /\ StoreOf(tasksFile) = StoreOf(LastCmd.preTasks)
        /\ undoFile = None

\* C1 (amended): after mark_done(q) directly followed by undo_last() the
\* store holds the same tasks with the same fields as before the mark_done,
\* equal as a multiset, and the undo buffer is absent.
C1_DoneUndoSameTasks ==
    DoneThenUndo =>
        /\ BagOfSeq(StoreOf(tasksFile)) = BagOfSeq(StoreOf(LastCmd.preTasks))
        /\ undoFile = None

C1_Witness ==
    /\ DoneThenUndo
    /\ Len(StoreOf(LastCmd.preTasks)) >= 2
    /\ StoreOf(tasksFile) # StoreOf(LastCmd.preTasks)
    /\ BagOfSeq(StoreOf(tasksFile)) = BagOfSeq(StoreOf(LastCmd.preTasks))
    /\ undoFile = None

\* Two consecutive mark_done calls each removed a task.
TwoDones ==
    /\ Len(hist) = 2
    /\ hist[1].op = "done" /\ hist[1].removed # None
    /\ hist[2].op = "done" /\ hist[2].removed # None

\* C2: after two consecutive mark_done calls removing t1 then t2 the undo
\* buffer holds exactly t2; after any number of undo_last calls that follow,
\* the store is what the second mark_done left plus t2 at the end, so as a
\* multiset it is the store before the first mark_done less one copy of t1.
C2_UndoSingleSlot ==
    TwoDones =>
        /\ undoRun.n = 0 => PendingOf(undoFile) = hist[2].removed
        /\ undoRun.n >= 1 =>
              /\ StoreOf(tasksFile) = Append(StoreOf(FirstUndo.preTasks), hist[2].removed[1])
              /\ BagOfSeq(StoreOf(tasksFile)) (+) SetToBag({hist[1].removed[1]})
                     = BagOfSeq(StoreOf(hist[1].preTasks))
              /\ undoFile = None

C2_Witness ==
    /\ TwoDones
    /\ hist[1].removed # hist[2].removed
    /\ undoRun.n >= 2
    /\ StoreOf(tasksFile) = <<hist[2].removed[1]>>

LastLoaded == Len(hist) >= 1 /\ undoRun.n = 0 /\ LastCmd.loaded # None

\* The file is present and load_tasks cannot get a task sequence out of it.
Unparseable(f) ==
    /\ exists(f)
    /\ \/ ~f[1].utf8
       \/ tasks_from_json(f[1].toks) = None

C5_ClearEmpties ==
    (Len(hist) >= 1 /\ undoRun.n = 0 /\ LastCmd.op = "clear" /\ LastCmd.ret = "Ok") =>
        load_tasks(tasksFile) = Ok(<<>>)

C5_Witness ==
    /\ Len(hist) >= 1 /\ undoRun.n = 0
    /\ LastCmd.op = "clear" /\ LastCmd.ret = "Ok"
    /\ Len(StoreOf(LastCmd.preTasks)) >= 2
    /\ load_tasks(tasksFile) = Ok(<<>>)

\* C6: clear_tasks leaves the undo file as it was, and after a mark_done
\* that removed a task, then clear_tasks, then undo_last, the store holds
\* exactly the removed task.
C6_ClearKeepsUndo ==
    /\ (Len(hist) >= 1 /\ undoRun.n = 0 /\ LastCmd.op = "clear") =>
          undoFile = LastCmd.preUndo
    /\ (/\ Len(hist) = 2 /\ undoRun.n = 1
        /\ hist[1].op = "done" /\ hist[1].removed # None
        /\ hist[2].op = "clear") =>
          /\ StoreOf(tasksFile) = <<hist[1].removed[1]>>
          /\ load_tasks(tasksFile).ok

C6_Witness ==
    /\ Len(hist) = 2 /\ undoRun.n = 1
    /\ hist[1].op = "done" /\ hist[1].removed # None
    /\ Len(StoreOf(hist[1].preTasks)) >= 2
    /\ hist[2].op = "clear"
    /\ hist[2].preUndo # None
    /\ StoreOf(tasksFile) = <<hist[1].removed[1]>>

\* C7: list_tasks and search_tasks leave the store file and the undo file
\* exactly as they were, whatever the files hold.
C7_ListSearchReadOnly ==
    (Len(hist) >= 1 /\ undoRun.n = 0 /\ LastCmd.op \in {"list", "search"}) =>
        /\ tasksFile = LastCmd.preTasks
        /\ undoFile = LastCmd.preUndo

C7_Witness ==
    /\ Len(hist) >= 1 /\ undoRun.n = 0
    /\ LastCmd.op = "list"
    /\ Len(LastCmd.printed) >= 2
    /\ LastCmd.printed # StoreOf(LastCmd.preTasks)
    /\ tasksFile = LastCmd.preTasks
    /\ undoFile # None

\* Case-insensitive Levenshtein distance between a description and a query.
Dist(d, q) == levenshtein(to_lowercase(d), to_lowercase(q))

\* C8: on a non-empty slice find_closest_task returns the smallest index
\* whose description is at minimum case-insensitive Levenshtein distance
\* from the query; on the empty slice it returns no match.
C8_ClosestFirstMin ==
    mPc = "resolved" =>
        IF Len(mTasks) = 0 THEN mFound = None
        ELSE /\ mFound # None
             /\ mFound[1] \in 0..(Len(mTasks) - 1)
             /\ \A j \in 0..(Len(mTasks) - 1) :
                   Dist(mTasks[mFound[1] + 1].description, mQuery)
                       <= Dist(mTasks[j + 1].description, mQuery)
             /\ \A j \in 0..(mFound[1] - 1) :
                   Dist(mTasks[j + 1].description, mQuery)
                       > Dist(mTasks[mFound[1] + 1].description, mQuery)

C8_Witness ==
    /\ mPc = "resolved"
    /\ Len(mTasks) = 2
    /\ mTasks[1].description # mTasks[2].description
    /\ Dist(mTasks[1].description, mQuery) = Dist(mTasks[2].description, mQuery)
    /\ Dist(mTasks[1].description, mQuery) > 0
    /\ mFound = Some(0)

\* Some task's description is exactly the query.
ExactMatch == \E i \in 1..Len(mTasks) : mTasks[i].description = mQuery

\* C9 (as stated): when the query is exactly the description of a task,
\* find_closest_task returns a task with that description.
C9_ExactMatchReturned ==
    (mPc = "resolved" /\ ExactMatch) =>
        /\ mFound # None
        /\ mTasks[mFound[1] + 1].description = mQuery

\* C9 (amended): when the query is exactly the description of a task,
\* find_closest_task returns the first task in store order whose
\* description equals the query up to letter case (distance 0); that is the
\* exactly matching task unless an earlier description differs from the
\* query only in case.
C9_ExactMatchFirstIgnoringCase ==
    (mPc = "resolved" /\ ExactMatch) =>
        /\ mFound # None
        /\ Dist(mTasks[mFound[1] + 1].description, mQuery) = 0
        /\ to_lowercase(mTasks[mFound[1] + 1].description) = to_lowercase(mQuery)
        /\ \A j \in 1..mFound[1] :
              to_lowercase(mTasks[j].description) # to_lowercase(mQuery)
        /\ (\A j \in 1..Len(mTasks) :
                to_lowercase(mTasks[j].description) = to_lowercase(mQuery)
                    => mTasks[j].description = mQuery)
              => mTasks[mFound[1] + 1].description = mQuery

C9_Witness ==
    /\ mPc = "resolved"
    /\ Len(mTasks) = 2
    /\ mTasks[2].description = mQuery
    /\ Len(mQuery) = 1 /\ Len(mTasks[1].description) = 1
    /\ Dist(mTasks[1].description, mQuery) = 1
    /\ mFound = Some(1)

\* C10: after a mark_done that removed a task, directly followed by
\* undo_last, the store holds the same collection of (description,
\* created_at) records as before the mark_done, and the restored record is
\* the removed one with its original created_at.
C10_DoneUndoKeepsTimestamps ==
    DoneThenUndo =>
        /\ LastUndo.ret = "Ok"
        /\ BagOfSeq(StoreOf(tasksFile)) = BagOfSeq(StoreOf(LastCmd.preTasks))
        /\ StoreOf(tasksFile)[Len(StoreOf(tasksFile))] = LastCmd.removed[1]
        /\ LastCmd.removed[1] \in {StoreOf(LastCmd.preTasks)[i] :
                                     i \in 1..Len(StoreOf(LastCmd.preTasks))}

C10_Witness ==
    /\ DoneThenUndo
    /\ Len(StoreOf(tasksFile)) = 2
    /\ LastCmd.removed[1].created_at # now
    /\ StoreOf(tasksFile)[2] = LastCmd.removed[1]
    /\ StoreOf(tasksFile)[1].created_at = now

\* The last command, with no undo_last after it.
LastIs(op) == Len(hist) >= 1 /\ undoRun.n = 0 /\ LastCmd.op = op

\* The 1-based position of the first task at minimum distance from q.
ClosestIndex(ts, q) ==
    CHOOSE i \in 1..Len(ts) :
        /\ \A j \in 1..Len(ts) : Dist(ts[i].description, q) <= Dist(ts[j].description, q)
        /\ \A j \in 1..(i - 1) : Dist(ts[j].description, q) > Dist(ts[i].description, q)

\* C11: edit_task on a non-empty store gives the closest-match task the new
\* description and changes nothing else: that task's created_at and
\* position, every other task, the store length and the undo file stay.
C11_EditOnlyDescription ==
    (LastIs("edit") /\ Len(StoreOf(LastCmd.preTasks)) >= 1) =>
        LET s0 == StoreOf(LastCmd.preTasks)
            s1 == StoreOf(tasksFile)
            i == ClosestIndex(s0, LastCmd.args.query)
        IN  /\ LastCmd.ret = "Ok"
            /\ load_tasks(tasksFile).ok
            /\ Len(s1) = Len(s0)
            /\ s1[i].description = LastCmd.args.description
            /\ s1[i].created_at = s0[i].created_at
            /\ \A j \in 1..Len(s0) : j # i => s1[j] = s0[j]
            /\ undoFile = LastCmd.preUndo

C11_Witness ==
    /\ LastIs("edit")
    /\ Len(StoreOf(LastCmd.preTasks)) = 2
    /\ ClosestIndex(StoreOf(LastCmd.preTasks), LastCmd.args.query) = 2
    /\ StoreOf(LastCmd.preTasks)[2].description # LastCmd.args.description
    /\ StoreOf(tasksFile)[2].description = LastCmd.args.description
    /\ StoreOf(tasksFile)[2].created_at # now
    /\ undoFile # None

\* C12: when load_tasks gives an empty sequence, mark_done and edit_task
\* return Ok, write nothing and leave the store file and the undo file as
\* they were, a pending undo task included.
C12_NoMatchIsNormal ==
    (/\ Len(hist) >= 1 /\ undoRun.n = 0
     /\ LastCmd.op \in {"done", "edit"}
     /\ LastCmd.loaded = Some(Ok(<<>>))) =>
        /\ LastCmd.ret = "Ok"
        /\ LastCmd.exit = 0
        /\ LastCmd.msg = "no matching task found"
        /\ LastCmd.removed = None
        /\ tasksFile = LastCmd.preTasks
        /\ undoFile = LastCmd.preUndo

C12_Witness ==
    /\ LastIs("done")
    /\ LastCmd.loaded = Some(Ok(<<>>))
    /\ LastCmd.preTasks # None
    /\ PendingOf(LastCmd.preUndo) # None
    /\ undoFile = LastCmd.preUndo
    /\ LastCmd.ret = "Ok"

\* C14: a successful add_task(d) leaves the store it loaded followed by one
\* new task with description d and the current time as created_at; the
\* undo file is unchanged, and a description already in the store is added
\* again.
C14_AddAppends ==
    (LastIs("add") /\ LastCmd.ret = "Ok") =>
        /\ load_tasks(tasksFile).ok
        /\ StoreOf(tasksFile)
              = Append(StoreOf(LastCmd.preTasks),
                       Task(LastCmd.args.description, LastCmd.args.time))
        /\ LastCmd.args.time <= now
        /\ undoFile = LastCmd.preUndo

C14_Witness ==
    /\ LastIs("add") /\ LastCmd.ret = "Ok"
    /\ Len(StoreOf(LastCmd.preTasks)) = 1
    /\ StoreOf(LastCmd.preTasks)[1].description = LastCmd.args.description
    /\ StoreOf(LastCmd.preTasks)[1].created_at < LastCmd.args.time
    /\ Len(StoreOf(tasksFile)) = 2
    /\ StoreOf(tasksFile)[2] = Task(LastCmd.args.description, now)

\* C13: started with no undo file, after any sequence of add, list, search,
\* done, undo, edit and clear the undo file exists only if some mark_done
\* removed a task and no undo_last has succeeded since.
C13_UndoFilePresence == exists(undoFile) => doneSince

C13_Witness ==
    /\ ~exists(undoFile)
    /\ ~doneSince
    /\ undoRun.n = 1
    /\ FirstUndo.msg = "undo successful: task restored"
    /\ Len(hist) = 2 /\ hist[1].op = "done" /\ hist[2].op = "clear"

Restored == "undo successful: task restored"

\* C17: a successful undo_last puts the restored task last and leaves the
\* tasks that were in the store where they were; after mark_done and
\* undo_last the task is at the end, not at the index it was removed from.
C17_UndoAppends ==
    /\ (undoRun.n >= 1 /\ FirstUndo.msg = Restored) =>
          /\ load_tasks(tasksFile).ok
          /\ StoreOf(tasksFile)
                = Append(StoreOf(FirstUndo.preTasks), PendingOf(FirstUndo.preUndo)[1])
    /\ DoneThenUndo =>
          /\ FirstUndo.msg = Restored
          /\ StoreOf(tasksFile)[Len(StoreOf(LastCmd.preTasks))] = LastCmd.removed[1]
          /\ \A i \in 1..(Len(StoreOf(LastCmd.preTasks)) - 1) :
                StoreOf(tasksFile)[i] = StoreOf(FirstUndo.preTasks)[i]

C17_Witness ==
    /\ DoneThenUndo
    /\ Len(StoreOf(LastCmd.preTasks)) = 2
    /\ StoreOf(LastCmd.preTasks)[1] = LastCmd.removed[1]
    /\ StoreOf(LastCmd.preTasks)[2] # LastCmd.removed[1]
    /\ StoreOf(tasksFile) = <<StoreOf(LastCmd.preTasks)[2], StoreOf(LastCmd.preTasks)[1]>>

\* C18: undo_last with no undo file returns Ok and changes neither file, so
\* after a mark_done that removed a task, one or more consecutive undo_last
\* calls add the removed task to the store once.
C18_UndoConsumedOnce ==
    /\ (undoRun.n >= 1 /\ ~exists(LastUndo.preUndo)) =>
          /\ LastUndo.ret = "Ok" /\ LastUndo.exit = 0
          /\ LastUndo.msg = "no undo available"
          /\ tasksFile = LastUndo.preTasks
          /\ undoFile = None
    /\ (/\ Len(hist) >= 1 /\ LastCmd.op = "done" /\ LastCmd.removed # None
        /\ undoRun.n >= 1) =>
          /\ StoreOf(tasksFile) = Append(StoreOf(FirstUndo.preTasks), LastCmd.removed[1])
          /\ Len(StoreOf(tasksFile)) = Len(StoreOf(LastCmd.preTasks))
          /\ undoFile = None

C18_Witness ==
    /\ Len(hist) >= 1 /\ LastCmd.op = "done" /\ LastCmd.removed # None
    /\ undoRun.n = 2
    /\ FirstUndo.msg = Restored
    /\ LastUndo.msg = "no undo available"
    /\ Len(StoreOf(LastCmd.preTasks)) = 2
    /\ Len(StoreOf(tasksFile)) = 2

C15_SaveLoadRoundTrip == rt.pc = "loaded" => rt.loaded = Ok(rt.tasks)

C15_Witness ==
    /\ rt.pc = "loaded"
    /\ Len(rt.tasks) = 2
    /\ rt.tasks[1].description = <<>>
    /\ rt.tasks[1].created_at > rt.tasks[2].created_at
    /\ rt.tasks[2].description = <<"A">>
    /\ rt.loaded = Ok(rt.tasks)

\* Where in the log process p made its load or its save.
LogPos(p, ev) == CHOOSE i \in 1..Len(race.log) : race.log[i] = [p |-> p, ev |-> ev]

BothDone == race.pc = <<"done", "done">>

\* Both processes loaded before either saved.
Overlapped == \A p \in Procs, q \in Procs : LogPos(p, "load") < LogPos(q, "save")

\* Process p saved before process q loaded.
OneAfterOther(p, q) == LogPos(p, "save") < LogPos(q, "load")

\* C16: when two add_task invocations both load before either saves, the
\* final store is the starting store plus the last writer's task only, the
\* other task being lost; when one runs after the other the final store has
\* both tasks, in the order they ran.
C16_LastWriterWins ==
    BothDone =>
        /\ Overlapped =>
              \E w \in Procs :
                  /\ \A p \in Procs : LogPos(p, "save") <= LogPos(w, "save")
                  /\ StoreOf(tasksFile) = Append(race.base, race.pushed[w][1])
        /\ \A p \in Procs, q \in Procs :
              OneAfterOther(p, q) =>
                  StoreOf(tasksFile) = race.base \o <<race.pushed[p][1], race.pushed[q][1]>>

C16_Witness ==
    /\ BothDone
    /\ Overlapped
    /\ Len(race.base) = 1
    /\ race.description[1] # race.description[2]
    /\ LogPos(1, "save") < LogPos(2, "save")
    /\ StoreOf(tasksFile) = Append(race.base, race.pushed[2][1])
    /\ \A i \in 1..Len(StoreOf(tasksFile)) : StoreOf(tasksFile)[i] # race.pushed[1][1]

\* The last command other than undo was a mark_done whose write failed.
DoneFailed(msg) == Len(hist) >= 1 /\ LastCmd.op = "done" /\ LastCmd.msg = msg

\* What the undo buffer held before the last command, as a sequence.
PendingBefore == PendingOf(LastCmd.preUndo)

====
